---------------------------- MODULE Spec2Model ----------------------------
(***************************************************************************)
(* Plant growth simulator (src/script.js): the segment-chain growth engine *)
(* (Segment, Plant) and the frame-driven simulation driver (App,           *)
(* startExperiment, stopExperiment, resetExperiment, animate, recordPoint).*)
(*                                                                         *)
(* Numbers.  Lengths are fixed-point integers, LenUnit units per pixel.    *)
(* Angles are integers in micro-radians.  A Math.random() result is an     *)
(* integer in thousandths (0 .. 999).  A segment tree is an arena: a       *)
(* sequence of segment records whose field parent is the index of the      *)
(* owning segment (0 for the germination segment); the children array of   *)
(* a segment is the ascending list of the indices that name it as parent,  *)
(* which is the order in which children.push appended them.                *)
(*                                                                         *)
(* Fields that only the renderer reads (baseWidth, leaf side and size,     *)
(* nextLeafSide, camera, zoom, theme) are not part of the state.           *)
(***************************************************************************)
EXTENDS Integers, Sequences, FiniteSets, TLC

(***************************************************************************)
(* Bounds of the model                                                     *)
(***************************************************************************)
\* fixed-point resolution: units per pixel
LenUnit == 10
\* growthRate of the model varieties, in length units per tick before x2.5
StemRate == 20
\* rootGrowthRate of the model varieties
RootRate == 12
\* maxStemLen of the short model variety, in length units
ShortStemLen == 100
\* maxRootLen of the short model variety
ShortRootLen == 90
\* maxStemLen of the long model variety: room for a main axis of depth 6
LongStemLen == 920
\* maxRootLen of the long model variety
LongRootLen == 200
\* largest representable segment length: additions saturate here
MaxLength == 200
\* largest represented plant age: past the germination latency the age is
\* counted cyclically, from GerminationTicks up to here and round again
MaxAge == 9
\* largest represented elapsed time, in milliseconds
MaxElapsed == 8000
\* most samples a series holds before the user has to clear the table
MaxSamples == 2
\* most animation frames pending at once
MaxPending == 2
\* most samples recorded of a plant that is followed on its own
MaxRecords == 1
\* largest magnitude, in micro-radians, at which adding 2 pi to a number
\* changes it: the model's scale for the 53-bit significand of a double,
\* beyond which d - 2 * Math.PI rounds back to d
MaxExact == 25000000

(***************************************************************************)
(* Program constants                                                       *)
(***************************************************************************)
\* Math.PI in micro-radians
Pi == 3141593
\* germination latency of Plant.update
GerminationTicks == 8
\* depth limit of branching
MaxBranchDepth == 5
\* sampling interval of animate, in milliseconds
SampleMs == 8000

Min(a, b) == IF a < b THEN a ELSE b

\* the values a Math.random() call returns in the model
Draws == {0, 500}

\* the values of the draw that sets the spread of a branch
SpreadDraws == {500}

\* the values of the jitter draw of the plants the driver constructs
StartDraws == {0}

Gravities == {0, 1}

LightDirs == {"none", "left"}

\* the variety table, reduced to the fields the growth engine reads
VARIETIES ==
    [cress |-> [maxStemLen |-> ShortStemLen, growthRate |-> StemRate,
                rootGrowthRate |-> RootRate, maxRootLen |-> ShortRootLen],
     bean |-> [maxStemLen |-> LongStemLen, growthRate |-> StemRate,
               rootGrowthRate |-> RootRate, maxRootLen |-> LongRootLen]]

Varieties == DOMAIN VARIETIES

(***************************************************************************)
(* Helpers                                                                 *)
(***************************************************************************)
dirToRad(dir) ==
    CASE dir = "top" -> -(Pi \div 2)
      [] dir = "bottom" -> Pi \div 2
      [] dir = "left" -> Pi
      [] dir = "right" -> 0
      [] OTHER -> 0

RECURSIVE angleDiffDown(_)
angleDiffDown(d) == IF d > Pi THEN angleDiffDown(d - 2 * Pi) ELSE d

RECURSIVE angleDiffUp(_)
angleDiffUp(d) == IF d < -Pi THEN angleDiffUp(d + 2 * Pi) ELSE d

angleDiff(a, b) == angleDiffUp(angleDiffDown(a - b))

\* x * (m / 1000), the product of a fixed-point value and a decimal factor
Scale(x, m) == (x * m) \div 1000

(***************************************************************************)
(* Segment                                                                 *)
(***************************************************************************)
targetLengthOf(isRoot) == IF isRoot THEN 10 * LenUnit ELSE 12 * LenUnit

\* new Segment(parent, isRoot, variety, angleOffset, isBranch)
Segment(parent, isRoot, angleOffset, isBranch) ==
    [parent |-> parent, isRoot |-> isRoot, angleOffset |-> angleOffset,
     isBranch |-> isBranch, targetLength |-> targetLengthOf(isRoot),
     length |-> LenUnit \div 10, growing |-> TRUE, leaves |-> << >>,
     hasBranched |-> FALSE]

\* this.children of segment i
children(tree, i) ==
    SelectSeq([j \in 1..Len(tree) |-> j], LAMBDA j : tree[j].parent = i)

RECURSIVE angle(_, _)
angle(tree, i) ==
    IF tree[i].parent = 0
    THEN (IF tree[i].isRoot THEN Pi \div 2 ELSE -(Pi \div 2))
    ELSE angle(tree, tree[i].parent) + tree[i].angleOffset

RECURSIVE getDepth(_, _)
getDepth(tree, i) ==
    IF tree[i].parent = 0 THEN 0 ELSE 1 + getDepth(tree, tree[i].parent)

RECURSIVE SumSeq(_)
SumSeq(s) == IF s = << >> THEN 0 ELSE Head(s) + SumSeq(Tail(s))

RECURSIVE totalLength(_, _)
totalLength(tree, i) ==
    LET kids == children(tree, i)
    IN tree[i].length
         + SumSeq([k \in 1..Len(kids) |-> totalLength(tree, kids[k])])

\* isFullyGrown that looks at the segment itself only
isFullyGrownShallow(tree, i) == ~tree[i].growing

RECURSIVE isFullyGrown(_, _)
isFullyGrown(tree, i) ==
    IF tree[i].growing THEN FALSE
    ELSE LET kids == children(tree, i)
         IN \A k \in 1..Len(kids) : isFullyGrown(tree, kids[k])

\* tipOffset that applies the light term whatever the light direction is
tipOffsetAlwaysLight(tree, i, gravity, lightDir, rTip) ==
    LET currentAngle == angle(tree, i)
        isRoot == tree[i].isRoot
        grav == IF gravity > 0
                THEN Scale(angleDiff(IF isRoot THEN Pi \div 2 ELSE -(Pi \div 2),
                                     currentAngle),
                           IF isRoot THEN 60 ELSE 28)
                ELSE 0
        lightAngle == dirToRad(lightDir)
        photo == Scale(angleDiff(IF isRoot THEN lightAngle + Pi
                                           ELSE lightAngle,
                                 currentAngle),
                       IF isRoot
                       THEN (IF gravity = 0 THEN 20 ELSE 10)
                       ELSE (IF gravity = 0 THEN 42 ELSE 25))
        rand == (rTip - 500) * (IF gravity = 0
                                THEN (IF isRoot THEN 22 ELSE 38)
                                ELSE (IF isRoot THEN 8 ELSE 18))
    IN grav + photo + rand

\* the offset _addTipSegment computes for the new tip of segment i
tipOffset(tree, i, gravity, lightDir, rTip) ==
    LET currentAngle == angle(tree, i)
        isRoot == tree[i].isRoot
        grav == IF gravity > 0
                THEN Scale(angleDiff(IF isRoot THEN Pi \div 2 ELSE -(Pi \div 2),
                                     currentAngle),
                           IF isRoot THEN 60 ELSE 28)
                ELSE 0
        lightAngle == dirToRad(lightDir)
        photo == IF lightDir # "none"
                 THEN Scale(angleDiff(IF isRoot THEN lightAngle + Pi
                                                ELSE lightAngle,
                                      currentAngle),
                            IF isRoot
                            THEN (IF gravity = 0 THEN 20 ELSE 10)
                            ELSE (IF gravity = 0 THEN 42 ELSE 25))
                 ELSE 0
        rand == (rTip - 500) * (IF gravity = 0
                                THEN (IF isRoot THEN 22 ELSE 38)
                                ELSE (IF isRoot THEN 8 ELSE 18))
    IN grav + photo + rand

\* _addTipSegment: push a continuation child with a freshly computed offset
addTipSegment(tree, i, gravity, lightDir, rTip) ==
    Append(tree, Segment(i, tree[i].isRoot,
                         tipOffset(tree, i, gravity, lightDir, rTip),
                         tree[i].isBranch))

\* _createBranch: push a branch child at 0.4 .. 0.75 rad to either side
createBranch(tree, i, rSide, rSpread) ==
    LET branchSide == IF rSide < 500 THEN 1 ELSE -1
        branchAngle == branchSide * (400000 + rSpread * 350)
    IN Append(tree, Segment(i, FALSE, branchAngle, TRUE))

\* the per-tick length increment r * 2.5 * growthMultiplier of a segment
growthStep(v, s) ==
    LET r == IF s.isRoot THEN VARIETIES[v].rootGrowthRate
                         ELSE VARIETIES[v].growthRate
        growthMultiplier == IF s.isBranch THEN 7 ELSE 10
    IN (r * 25 * growthMultiplier) \div 100

\* growLeaves without the test that keeps leaves off branch segments
growLeavesOnBranches(s, rLeaf) ==
    IF ~s.isRoot /\ s.length > 3 * LenUnit
    THEN LET leafInterval == 8 * LenUnit + Scale(4 * LenUnit, rLeaf)
             lastLeafPos == IF Len(s.leaves) > 0
                            THEN s.leaves[Len(s.leaves)] ELSE 0
         IN IF s.length - lastLeafPos > leafInterval
            THEN [s EXCEPT !.leaves = Append(@, s.length)]
            ELSE s
    ELSE s

\* the leaf step of grow: one leaf when the last one is an interval behind
growLeaves(s, rLeaf) ==
    IF ~s.isRoot /\ ~s.isBranch /\ s.length > 3 * LenUnit
    THEN LET leafInterval == 8 * LenUnit + Scale(4 * LenUnit, rLeaf)
             lastLeafPos == IF Len(s.leaves) > 0
                            THEN s.leaves[Len(s.leaves)] ELSE 0
         IN IF s.length - lastLeafPos > leafInterval
            THEN [s EXCEPT !.leaves = Append(@, s.length)]
            ELSE s
    ELSE s

\* canBranch with the depth limit off by one
canBranchDeeper(tree, i) ==
    /\ ~tree[i].isRoot
    /\ ~tree[i].isBranch
    /\ ~tree[i].hasBranched
    /\ tree[i].length * 10 > tree[i].targetLength * 6
    /\ getDepth(tree, i) <= MaxBranchDepth

\* canBranch without the test of the length against 0.6 x targetLength
canBranchEarly(tree, i) ==
    /\ ~tree[i].isRoot
    /\ ~tree[i].isBranch
    /\ ~tree[i].hasBranched
    /\ getDepth(tree, i) < MaxBranchDepth

\* the branching condition of grow up to its random draw, evaluated after
\* the length increment
canBranch(tree, i) ==
    /\ ~tree[i].isRoot
    /\ ~tree[i].isBranch
    /\ ~tree[i].hasBranched
    /\ tree[i].length * 10 > tree[i].targetLength * 6
    /\ getDepth(tree, i) < MaxBranchDepth

\* growBranch that forgets to set hasBranched
growBranchUnmarked(tree, i) ==
    IF canBranch(tree, i)
    THEN {createBranch(tree, i, rSide, rSpread) :
              rSide \in Draws, rSpread \in SpreadDraws}
           \cup (IF \E r \in Draws : ~(r < 150) THEN {tree} ELSE {})
    ELSE {tree}

\* the branching step of grow: every tree it can leave, one per outcome of
\* the draws Math.random() < 0.15 and of the draws inside _createBranch
growBranch(tree, i) ==
    IF canBranch(tree, i)
    THEN {[createBranch(tree, i, rSide, rSpread)
              EXCEPT ![i].hasBranched = TRUE] :
              rSide \in Draws, rSpread \in SpreadDraws}
           \cup (IF \E r \in Draws : ~(r < 150) THEN {tree} ELSE {})
    ELSE {tree}

\* growComplete that enforces the organ maximum by cutting the last segment
\* back by the amount the organ is over
growCompleteTrimmed(tree, i, gravity, lightDir, total, maxLength) ==
    IF tree[i].length >= tree[i].targetLength /\ children(tree, i) = << >>
    THEN IF total < maxLength
         THEN {addTipSegment([tree EXCEPT ![i].growing = FALSE],
                             i, gravity, lightDir, rTip) : rTip \in Draws}
         ELSE {[tree EXCEPT ![i].growing = FALSE,
                            ![i].length = @ - Min(@, total - maxLength)]}
    ELSE {tree}

\* growComplete that tests the length only, whatever children there are
growCompleteAnyChildren(tree, i, gravity, lightDir, total, maxLength) ==
    IF tree[i].length >= tree[i].targetLength
    THEN IF total < maxLength
         THEN {addTipSegment([tree EXCEPT ![i].growing = FALSE],
                             i, gravity, lightDir, rTip) : rTip \in Draws}
         ELSE {[tree EXCEPT ![i].growing = FALSE]}
    ELSE {tree}

\* growComplete that adds the tip segment without looking at the organ
\* total
growCompleteNoCeiling(tree, i, gravity, lightDir, total, maxLength) ==
    IF tree[i].length >= tree[i].targetLength /\ children(tree, i) = << >>
    THEN {addTipSegment([tree EXCEPT ![i].growing = FALSE],
                        i, gravity, lightDir, rTip) : rTip \in Draws}
    ELSE {tree}

\* the completion step of grow: stop at the target and add the tip segment
\* while the organ total is below its maximum
growComplete(tree, i, gravity, lightDir, total, maxLength) ==
    IF tree[i].length >= tree[i].targetLength /\ children(tree, i) = << >>
    THEN IF total < maxLength
         THEN {addTipSegment([tree EXCEPT ![i].growing = FALSE],
                             i, gravity, lightDir, rTip) : rTip \in Draws}
         ELSE {[tree EXCEPT ![i].growing = FALSE]}
    ELSE {tree}

\* growActive that steers the segment anew on every tick
growActiveSteering(tree, i, v, gravity, lightDir, total, maxLength) ==
    LET s0 == tree[i]
        s1 == [s0 EXCEPT !.length = Min(@ + growthStep(v, s0), MaxLength),
                         !.angleOffset =
                            @ + tipOffset(tree, i, gravity, lightDir, 500)]
        leafed == {[tree EXCEPT ![i] = growLeaves(s1, rLeaf)] :
                      rLeaf \in Draws}
        branched == UNION {growBranch(t, i) : t \in leafed}
    IN UNION {growComplete(t, i, gravity, lightDir, total, maxLength) :
                 t \in branched}

\* the body of grow for a segment whose growing flag is set: the set of
\* trees it can leave, one per resolution of its random draws
growActive(tree, i, v, gravity, lightDir, total, maxLength) ==
    LET s0 == tree[i]
        s1 == [s0 EXCEPT !.length = Min(@ + growthStep(v, s0), MaxLength)]
        leafed == {[tree EXCEPT ![i] = growLeaves(s1, rLeaf)] :
                      rLeaf \in Draws}
        branched == UNION {growBranch(t, i) : t \in leafed}
    IN UNION {growComplete(t, i, gravity, lightDir, total, maxLength) :
                 t \in branched}

RECURSIVE grow(_, _, _, _, _, _, _)
RECURSIVE growEach(_, _, _, _, _, _, _)
\* grow without the test of the growing flag
growUnguarded(tree, i, v, gravity, lightDir, total, maxLength) ==
    UNION {growEach(t, children(t, i), v, gravity, lightDir, total,
                    maxLength) :
              t \in growActive(tree, i, v, gravity, lightDir, total,
                               maxLength)}

\* Segment.grow: the active part, then the loop over this.children
grow(tree, i, v, gravity, lightDir, total, maxLength) ==
    LET active == IF tree[i].growing
                  THEN growActive(tree, i, v, gravity, lightDir, total,
                                  maxLength)
                  ELSE {tree}
    IN UNION {growEach(t, children(t, i), v, gravity, lightDir, total,
                       maxLength) : t \in active}

\* for (const c of this.children) c.grow(...)
growEach(tree, kids, v, gravity, lightDir, total, maxLength) ==
    IF kids = << >> THEN {tree}
    ELSE UNION {growEach(t, Tail(kids), v, gravity, lightDir, total,
                         maxLength) :
                   t \in grow(tree, Head(kids), v, gravity, lightDir, total,
                              maxLength)}

(***************************************************************************)
(* Plant                                                                   *)
(***************************************************************************)
\* new Plant(variety, gravity, lightDir)
Plant(v, rJitter) ==
    LET jitter == (rJitter - 500) * 80
    IN [variety |-> v, age |-> 0,
        maxShootLength |-> VARIETIES[v].maxStemLen,
        maxRootLength |-> VARIETIES[v].maxRootLen,
        shoot |-> << Segment(0, FALSE, jitter, FALSE) >>,
        root |-> << Segment(0, TRUE, jitter, FALSE) >>]

\* update whose germination test lets one more tick pass without growth
updateLate(p, gravity, lightDir) ==
    LET aged == [p EXCEPT !.age = IF @ < MaxAge THEN @ + 1
                                            ELSE GerminationTicks]
    IN IF p.age < GerminationTicks THEN {aged}
       ELSE LET shootLen == totalLength(p.shoot, 1)
                rootLen == totalLength(p.root, 1)
            IN {[aged EXCEPT !.shoot = s, !.root = r] :
                   s \in grow(p.shoot, 1, p.variety, gravity, lightDir,
                              shootLen, p.maxShootLength),
                   r \in grow(p.root, 1, p.variety, gravity, lightDir,
                              rootLen, p.maxRootLength)}

\* Plant.update(gravity, lightDir): the set of plants it can leave
update(p, gravity, lightDir) ==
    LET aged == [p EXCEPT !.age = IF @ < MaxAge THEN @ + 1
                                            ELSE GerminationTicks]
    IN IF aged.age < GerminationTicks THEN {aged}
       ELSE LET shootLen == totalLength(p.shoot, 1)
                rootLen == totalLength(p.root, 1)
            IN {[aged EXCEPT !.shoot = s, !.root = r] :
                   s \in grow(p.shoot, 1, p.variety, gravity, lightDir,
                              shootLen, p.maxShootLength),
                   r \in grow(p.root, 1, p.variety, gravity, lightDir,
                              rootLen, p.maxRootLength)}

\* Plant.isFullyGrown()
plantFullyGrown(p) == isFullyGrown(p.shoot, 1) /\ isFullyGrown(p.root, 1)

\* countBranches that counts a branch where it leaves the main axis and
\* not again for the segments that continue it
RECURSIVE countBranchesOnce(_, _)
countBranchesOnce(tree, i) ==
    LET kids == children(tree, i)
    IN SumSeq([k \in 1..Len(kids) |->
                  (IF tree[kids[k]].isBranch /\ ~tree[i].isBranch
                   THEN 1 ELSE 0)
                    + countBranchesOnce(tree, kids[k])])

\* countBranches(seg) of updateLiveData and recordPoint
RECURSIVE countBranches(_, _)
countBranches(tree, i) ==
    LET kids == children(tree, i)
    IN SumSeq([k \in 1..Len(kids) |->
                  (IF tree[kids[k]].isBranch THEN 1 ELSE 0)
                    + countBranches(tree, kids[k])])

(***************************************************************************)
(* Driver.  A world w is the record [App, ui, raf]: the App object, the    *)
(* disabled flags of the controls, and the requestAnimationFrame queue.    *)
(* A nullable plant is a sequence: << >> for null, << p >> for a Plant.    *)
(* App.startTime is not stored: elapsedMs = Date.now() - startTime is      *)
(* kept as elapsedMs plus the time dt that passed since it was last read.  *)
(* raf.last says whether the callback whose id is App.animId is pending,   *)
(* raf.older counts the pending callbacks requested before it.             *)
(***************************************************************************)
\* the time that can pass between two reads of Date.now(), in milliseconds
FrameDts == {0, SampleMs}

\* the varieties that have a plant card on the page
PlantCards == {"cress"}

\* the App object literal
AppInit ==
    [isRunning |-> FALSE, isComplete |-> FALSE, elapsedMs |-> 0,
     gravity |-> 0, lightDir |-> "none", variety |-> "cress",
     compareMode |-> FALSE, plant |-> << >>, comparePlant |-> << >>,
     dataPoints |-> << >>, compareData |-> << >>]

\* requestAnimationFrame(animate), its id stored in App.animId
requestAnimationFrame(raf) ==
    [older |-> raf.older + (IF raf.last THEN 1 ELSE 0), last |-> TRUE]

\* cancelAnimationFrame(App.animId)
cancelAnimationFrame(raf) == [raf EXCEPT !.last = FALSE]

\* the queue after the browser has taken its oldest callback to run it
takeFrame(raf) ==
    IF raf.older > 0 THEN [raf EXCEPT !.older = @ - 1]
    ELSE [raf EXCEPT !.last = FALSE]

\* recordPoint()
recordPoint(app) ==
    IF app.plant = << >> THEN app
    ELSE [app EXCEPT !.dataPoints =
             Append(@, [time |-> app.elapsedMs,
                        branches |-> countBranches(app.plant[1].shoot, 1)])]

\* recordComparePoint()
recordComparePoint(app) ==
    IF app.comparePlant = << >> THEN app
    ELSE [app EXCEPT !.compareData = Append(@, [time |-> app.elapsedMs])]

\* animatePlant that completes the run when either plant is fully grown
animatePlantEitherDone(w, p) ==
    LET a1 == [w.App EXCEPT !.plant = << p >>]
        done == /\ ~a1.isComplete
                /\ \/ plantFullyGrown(p)
                   \/ /\ a1.comparePlant # << >>
                      /\ plantFullyGrown(a1.comparePlant[1])
        a2 == IF done
              THEN recordPoint([a1 EXCEPT !.isComplete = TRUE,
                                          !.isRunning = FALSE])
              ELSE a1
        u2 == IF done
              THEN [w.ui EXCEPT !.startDisabled = TRUE,
                                !.stopDisabled = TRUE]
              ELSE w.ui
        a3 == IF a2.elapsedMs \div SampleMs > Len(a2.dataPoints)
                 /\ a2.isRunning
              THEN recordPoint(a2) ELSE a2
    IN [w EXCEPT !.App = a3, !.ui = u2]

\* animatePlant that leaves the final sample to the periodic check
animatePlantNoRecord(w, p) ==
    LET a1 == [w.App EXCEPT !.plant = << p >>]
        done == ~a1.isComplete /\ plantFullyGrown(p)
        a2 == IF done
              THEN [a1 EXCEPT !.isComplete = TRUE, !.isRunning = FALSE]
              ELSE a1
        u2 == IF done
              THEN [w.ui EXCEPT !.startDisabled = TRUE,
                                !.stopDisabled = TRUE]
              ELSE w.ui
        a3 == IF a2.elapsedMs \div SampleMs > Len(a2.dataPoints)
                 /\ a2.isRunning
              THEN recordPoint(a2) ELSE a2
    IN [w EXCEPT !.App = a3, !.ui = u2]

\* animatePlant that completes the run without halting it
animatePlantNoHalt(w, p) ==
    LET a1 == [w.App EXCEPT !.plant = << p >>]
        done == ~a1.isComplete /\ plantFullyGrown(p)
        a2 == IF done
              THEN recordPoint([a1 EXCEPT !.isComplete = TRUE])
              ELSE a1
        u2 == IF done
              THEN [w.ui EXCEPT !.startDisabled = TRUE,
                                !.stopDisabled = TRUE]
              ELSE w.ui
        a3 == IF a2.elapsedMs \div SampleMs > Len(a2.dataPoints)
                 /\ a2.isRunning
              THEN recordPoint(a2) ELSE a2
    IN [w EXCEPT !.App = a3, !.ui = u2]

\* the treatment half of animate, after the plant p has been updated
animatePlant(w, p) ==
    LET a1 == [w.App EXCEPT !.plant = << p >>]
        done == ~a1.isComplete /\ plantFullyGrown(p)
        a2 == IF done
              THEN recordPoint([a1 EXCEPT !.isComplete = TRUE,
                                          !.isRunning = FALSE])
              ELSE a1
        u2 == IF done
              THEN [w.ui EXCEPT !.startDisabled = TRUE,
                                !.stopDisabled = TRUE]
              ELSE w.ui
        a3 == IF a2.elapsedMs \div SampleMs > Len(a2.dataPoints)
                 /\ a2.isRunning
              THEN recordPoint(a2) ELSE a2
    IN [w EXCEPT !.App = a3, !.ui = u2]

\* the control half of animate, after the control plant p has been updated
animateCompare(w, p) ==
    LET a1 == [w.App EXCEPT !.comparePlant = << p >>]
        a2 == IF a1.elapsedMs \div SampleMs > Len(a1.compareData)
                 /\ a1.isRunning
              THEN recordComparePoint(a1) ELSE a1
    IN [w EXCEPT !.App = a2]

\* animate whose control plant shares the segment trees of the treatment
\* plant
animateAliased(w, dt) ==
    IF ~w.App.isRunning THEN {w}
    ELSE LET w0 == [w EXCEPT !.App.elapsedMs = Min(@ + dt, MaxElapsed)]
             treated == IF w0.App.plant = << >> THEN {w0}
                        ELSE {animatePlant(w0, p) :
                                 p \in update(w0.App.plant[1], w0.App.gravity,
                                              w0.App.lightDir)}
             compared == UNION {IF w1.App.comparePlant = << >> THEN {w1}
                                ELSE {animateCompare(w1, p) :
                                         p \in update(
                                            [w1.App.comparePlant[1] EXCEPT
                                               !.shoot = w1.App.plant[1].shoot,
                                               !.root = w1.App.plant[1].root],
                                            1, w1.App.lightDir)} :
                                   w1 \in treated}
         IN {IF w2.App.isRunning
             THEN [w2 EXCEPT !.raf = requestAnimationFrame(@)]
             ELSE w2 : w2 \in compared}

\* animate that takes the time since the last frame for the elapsed time
animateDeltaClock(w, dt) ==
    IF ~w.App.isRunning THEN {w}
    ELSE LET w0 == [w EXCEPT !.App.elapsedMs = Min(dt, MaxElapsed)]
             treated == IF w0.App.plant = << >> THEN {w0}
                        ELSE {animatePlant(w0, p) :
                                 p \in update(w0.App.plant[1], w0.App.gravity,
                                              w0.App.lightDir)}
             compared == UNION {IF w1.App.comparePlant = << >> THEN {w1}
                                ELSE {animateCompare(w1, p) :
                                         p \in update(w1.App.comparePlant[1],
                                                      1, w1.App.lightDir)} :
                                   w1 \in treated}
         IN {IF w2.App.isRunning
             THEN [w2 EXCEPT !.raf = requestAnimationFrame(@)]
             ELSE w2 : w2 \in compared}

\* animate without the isRunning test at its head
animateUnguarded(w, dt) ==
    LET w0 == [w EXCEPT !.App.elapsedMs = Min(@ + dt, MaxElapsed)]
        treated == IF w0.App.plant = << >> THEN {w0}
                   ELSE {animatePlant(w0, p) :
                            p \in update(w0.App.plant[1], w0.App.gravity,
                                         w0.App.lightDir)}
        compared == UNION {IF w1.App.comparePlant = << >> THEN {w1}
                           ELSE {animateCompare(w1, p) :
                                    p \in update(w1.App.comparePlant[1],
                                                 1, w1.App.lightDir)} :
                              w1 \in treated}
    IN {IF w2.App.isRunning
        THEN [w2 EXCEPT !.raf = requestAnimationFrame(@)]
        ELSE w2 : w2 \in compared}

\* animate(), called dt milliseconds after elapsedMs was last read:
\* the set of worlds it can leave
animate(w, dt) ==
    IF ~w.App.isRunning THEN {w}
    ELSE LET w0 == [w EXCEPT !.App.elapsedMs = Min(@ + dt, MaxElapsed)]
             treated == IF w0.App.plant = << >> THEN {w0}
                        ELSE {animatePlant(w0, p) :
                                 p \in update(w0.App.plant[1], w0.App.gravity,
                                              w0.App.lightDir)}
             compared == UNION {IF w1.App.comparePlant = << >> THEN {w1}
                                ELSE {animateCompare(w1, p) :
                                         p \in update(w1.App.comparePlant[1],
                                                      1, w1.App.lightDir)} :
                                   w1 \in treated}
         IN {IF w2.App.isRunning
             THEN [w2 EXCEPT !.raf = requestAnimationFrame(@)]
             ELSE w2 : w2 \in compared}

\* startExperiment without the isRunning test at its head
startExperimentUnguarded(w) ==
    UNION {
      LET a1 == [w.App EXCEPT
                   !.plant = << Plant(w.App.variety, rJ) >>,
                   !.isRunning = TRUE, !.isComplete = FALSE]
          a2 == IF a1.compareMode /\ a1.gravity # 1
                THEN [a1 EXCEPT
                        !.comparePlant = << Plant(a1.variety, rC) >>]
                ELSE [a1 EXCEPT !.comparePlant = << >>,
                                !.compareData = << >>]
          u == [startDisabled |-> TRUE, stopDisabled |-> FALSE,
                inputsDisabled |-> TRUE]
      IN animate([w EXCEPT !.App = a2, !.ui = u], 0) :
      rJ \in StartDraws, rC \in StartDraws}

\* startExperiment that constructs a plant only when there is none
startExperimentResuming(w) ==
    IF w.App.isRunning THEN {w}
    ELSE UNION {
           LET a1 == [w.App EXCEPT
                        !.plant = IF @ = << >>
                                  THEN << Plant(w.App.variety, rJ) >> ELSE @,
                        !.isRunning = TRUE, !.isComplete = FALSE]
               a2 == IF a1.compareMode /\ a1.gravity # 1
                     THEN [a1 EXCEPT
                             !.comparePlant = << Plant(a1.variety, rC) >>]
                     ELSE [a1 EXCEPT !.comparePlant = << >>,
                                     !.compareData = << >>]
               u == [startDisabled |-> TRUE, stopDisabled |-> FALSE,
                     inputsDisabled |-> TRUE]
           IN animate([w EXCEPT !.App = a2, !.ui = u], 0) :
           rJ \in StartDraws, rC \in StartDraws}

\* startExperiment that leaves isComplete as it finds it
startExperimentKeepsComplete(w) ==
    IF w.App.isRunning THEN {w}
    ELSE UNION {
           LET a1 == [w.App EXCEPT
                        !.plant = << Plant(w.App.variety, rJ) >>,
                        !.isRunning = TRUE]
               a2 == IF a1.compareMode /\ a1.gravity # 1
                     THEN [a1 EXCEPT
                             !.comparePlant = << Plant(a1.variety, rC) >>]
                     ELSE [a1 EXCEPT !.comparePlant = << >>,
                                     !.compareData = << >>]
               u == [startDisabled |-> TRUE, stopDisabled |-> FALSE,
                     inputsDisabled |-> TRUE]
           IN animate([w EXCEPT !.App = a2, !.ui = u], 0) :
           rJ \in StartDraws, rC \in StartDraws}

\* startExperiment()
startExperiment(w) ==
    IF w.App.isRunning THEN {w}
    ELSE UNION {
           LET a1 == [w.App EXCEPT
                        !.plant = << Plant(w.App.variety, rJ) >>,
                        !.isRunning = TRUE, !.isComplete = FALSE]
               a2 == IF a1.compareMode /\ a1.gravity # 1
                     THEN [a1 EXCEPT
                             !.comparePlant = << Plant(a1.variety, rC) >>]
                     ELSE [a1 EXCEPT !.comparePlant = << >>,
                                     !.compareData = << >>]
               u == [startDisabled |-> TRUE, stopDisabled |-> FALSE,
                     inputsDisabled |-> TRUE]
           IN animate([w EXCEPT !.App = a2, !.ui = u], 0) :
           rJ \in StartDraws, rC \in StartDraws}

\* stopExperiment that leaves out the final recordPoint()
stopExperimentSilent(w) ==
    [w EXCEPT !.App.isRunning = FALSE,
              !.ui.startDisabled = FALSE, !.ui.stopDisabled = TRUE]

\* stopExperiment()
stopExperiment(w) ==
    [w EXCEPT !.App = recordPoint([w.App EXCEPT !.isRunning = FALSE]),
              !.ui.startDisabled = FALSE, !.ui.stopDisabled = TRUE]

\* resetExperiment()
resetExperiment(w) ==
    [App |-> [w.App EXCEPT !.isRunning = FALSE, !.isComplete = FALSE,
                           !.elapsedMs = 0, !.plant = << >>,
                           !.comparePlant = << >>],
     ui |-> [startDisabled |-> FALSE, stopDisabled |-> TRUE,
             inputsDisabled |-> FALSE],
     raf |-> cancelAnimationFrame(w.raf)]

\* clearData(), confirmed by the user
clearData(w) ==
    [w EXCEPT !.App.dataPoints = << >>, !.App.compareData = << >>]

\* click handler of a .gravity-btn whose data-gravity is g
gravityClick(w, g) ==
    IF w.App.gravity # g
    THEN [w EXCEPT !.App.gravity = g, !.App.compareMode = (g = 0)]
    ELSE w

\* click handler of a .plant-card whose data-variety is v
varietyClick(w, v) == [w EXCEPT !.App.variety = v]

\* click handler of a .light-btn whose data-direction is d
lightClick(w, d) == [w EXCEPT !.App.lightDir = d]

(***************************************************************************)
(* State                                                                   *)
(***************************************************************************)
VARIABLES App, ui, raf, op, calc

vars == <<App, ui, raf, op, calc>>

\* calc is the activation of angleDiff when the function is run on its own,
\* and CalcIdle otherwise
CalcIdle == [pc |-> "idle"]

World == [App |-> App, ui |-> ui, raf |-> raf]

\* the step to world w by the operation named o
Becomes(w, o) ==
    /\ App' = w.App
    /\ ui' = w.ui
    /\ raf' = w.raf
    /\ op' = o
    /\ calc' = calc

Pending(r) == r.older + (IF r.last THEN 1 ELSE 0)

\* the page after DOMContentLoaded; the markup decides whether the stop
\* button starts disabled
Init ==
    /\ App = AppInit
    /\ \E sd \in BOOLEAN :
          ui = [startDisabled |-> FALSE, stopDisabled |-> sd,
                inputsDisabled |-> FALSE]
    /\ raf = [older |-> 0, last |-> FALSE]
    /\ op = "user"
    /\ calc = CalcIdle

\* click on the start button
Start ==
    /\ ~ui.startDisabled
    /\ Pending(raf) < MaxPending
    /\ Len(App.dataPoints) < MaxSamples
    /\ \E w \in startExperiment(World) : Becomes(w, "start")

\* click on the stop button
Stop ==
    /\ ~ui.stopDisabled
    /\ Len(App.dataPoints) < MaxSamples
    /\ Becomes(stopExperiment(World), "stop")

\* click on the reset button
Reset == Becomes(resetExperiment(World), "reset")

\* click on the clear button
Clear == Becomes(clearData(World), "user")

\* the browser runs the oldest pending animation frame callback
Frame ==
    /\ Pending(raf) > 0
    /\ \E dt \in FrameDts :
          \E w \in animate([World EXCEPT !.raf = takeFrame(@)], dt) :
             Becomes(w, IF App.isRunning THEN "frame" ELSE "frameIdle")

GravityClick ==
    /\ ~ui.inputsDisabled
    /\ \E g \in Gravities : Becomes(gravityClick(World, g), "user")

VarietyClick ==
    /\ ~ui.inputsDisabled
    /\ \E v \in PlantCards : Becomes(varietyClick(World, v), "user")

LightClick == \E d \in LightDirs : Becomes(lightClick(World, d), "user")

Next ==
    \/ Start
    \/ Stop
    \/ Reset
    \/ Clear
    \/ Frame
    \/ GravityClick
    \/ VarietyClick
    \/ LightClick

Spec == Init /\ [][Next]_vars

(***************************************************************************)
(* The growth engine on its own: one Plant of any variety, constructed     *)
(* under any gravity and light, and updated tick after tick.               *)
(***************************************************************************)
InitGrowth ==
    /\ \E v \in Varieties, g \in Gravities, d \in LightDirs, rJ \in Draws :
          App = [AppInit EXCEPT !.variety = v, !.gravity = g, !.lightDir = d,
                                !.plant = << Plant(v, rJ) >>]
    /\ ui = [startDisabled |-> FALSE, stopDisabled |-> TRUE,
             inputsDisabled |-> FALSE]
    /\ raf = [older |-> 0, last |-> FALSE]
    /\ op = "new"
    /\ calc = CalcIdle

\* App.plant.update(App.gravity, App.lightDir)
Update ==
    /\ \E p \in update(App.plant[1], App.gravity, App.lightDir) :
          App' = [App EXCEPT !.plant = << p >>]
    /\ op' = "update"
    /\ UNCHANGED <<ui, raf, calc>>

NextGrowth == Update

SpecGrowth == InitGrowth /\ [][NextGrowth]_vars

(***************************************************************************)
(* The growth engine with recordPoint: a plant is updated tick after tick  *)
(* and sampled at any moment, up to MaxRecords samples.                    *)
(***************************************************************************)
\* App.plant.update(App.gravity, App.lightDir) while samples are to come
UpdateSampled ==
    /\ Len(App.dataPoints) < MaxRecords
    /\ Update

\* recordPoint()
Record ==
    /\ Len(App.dataPoints) < MaxRecords
    /\ App' = recordPoint(App)
    /\ op' = "record"
    /\ UNCHANGED <<ui, raf, calc>>

NextSample ==
    \/ UpdateSampled
    \/ Record

SpecSample == InitGrowth /\ [][NextSample]_vars

(***************************************************************************)
(* angleDiff on its own, as the loops of its source run in double          *)
(* arithmetic: one step per evaluation of a loop test.  The field n counts *)
(* the iterations modulo 2.                                                *)
(***************************************************************************)
\* the arguments angleDiff is called with, in micro-radians
AngleInputs ==
    {-(MaxExact + 5000000), -7000000, -Pi, -1, 0, 1, Pi, 7000000,
     20000000, MaxExact + 5000000}

\* d + x in double arithmetic, x being 2 pi or less in magnitude
FloatAdd(d, x) == IF d > MaxExact \/ d < -MaxExact THEN d ELSE d + x

\* the body of while (d > Math.PI) d -= 2 * Math.PI
whileAbove(d) == FloatAdd(d, -(2 * Pi))

\* the body of while (d < -Math.PI) d += 2 * Math.PI
whileBelow(d) == FloatAdd(d, 2 * Pi)

\* angleDiff(a, b) has been called: let d = a - b
InitAngle ==
    /\ App = AppInit
    /\ ui = [startDisabled |-> FALSE, stopDisabled |-> TRUE,
             inputsDisabled |-> FALSE]
    /\ raf = [older |-> 0, last |-> FALSE]
    /\ op = "angleDiff"
    /\ \E a \in AngleInputs, b \in AngleInputs :
          calc = [pc |-> "above", a |-> a, b |-> b, d |-> a - b, n |-> 0]

\* one test of the first loop, and its body if the test holds
LoopAbove ==
    /\ calc.pc = "above"
    /\ calc' = IF calc.d > Pi
               THEN [calc EXCEPT !.d = whileAbove(@), !.n = 1 - @]
               ELSE [calc EXCEPT !.pc = "below"]
    /\ UNCHANGED <<App, ui, raf, op>>

\* one test of the second loop, and its body if the test holds; return d
LoopBelow ==
    /\ calc.pc = "below"
    /\ calc' = IF calc.d < -Pi
               THEN [calc EXCEPT !.d = whileBelow(@), !.n = 1 - @]
               ELSE [calc EXCEPT !.pc = "done"]
    /\ UNCHANGED <<App, ui, raf, op>>

NextAngle ==
    \/ LoopAbove
    \/ LoopBelow

SpecAngle == InitAngle /\ [][NextAngle]_vars /\ WF_vars(NextAngle)

(***************************************************************************)
(* A run that is never stopped or reset: the frame callback is taken as    *)
(* long as it can change the state.                                        *)
(***************************************************************************)
NextRun ==
    \/ Start
    \/ Clear
    \/ Frame
    \/ GravityClick
    \/ VarietyClick
    \/ LightClick

SpecRun == Init /\ [][NextRun]_vars /\ WF_vars(Frame)

(***************************************************************************)
(* The driver's operations invoked as functions: startExperiment and       *)
(* stopExperiment are globals of the page and run whenever they are        *)
(* called, whatever the disabled flags of their buttons say.               *)
(***************************************************************************)
\* startExperiment() called in any state
CallStart ==
    /\ App.isRunning \/ Pending(raf) < MaxPending
    /\ Len(App.dataPoints) < MaxSamples
    /\ \E w \in startExperiment(World) :
          Becomes(w, IF App.isRunning THEN "startIgnored" ELSE "start")

\* stopExperiment() called in any state
CallStop ==
    /\ Len(App.dataPoints) < MaxSamples
    /\ Becomes(stopExperiment(World),
               IF App.isRunning THEN "stop" ELSE "stopIdle")

NextCalls ==
    \/ CallStart
    \/ CallStop
    \/ Reset
    \/ Clear
    \/ Frame
    \/ GravityClick
    \/ VarietyClick
    \/ LightClick

SpecCalls == Init /\ [][NextCalls]_vars

(***************************************************************************)
(* Properties                                                              *)
(***************************************************************************)
\* the plants that exist
Plants ==
    {App.plant[k] : k \in DOMAIN App.plant}
      \cup {App.comparePlant[k] : k \in DOMAIN App.comparePlant}

\* the segment trees that exist
Trees == UNION {{p.shoot, p.root} : p \in Plants}

\* the children of segment i as a set of indices
Kids(tree, i) == {j \in 1..Len(tree) : tree[j].parent = i}

\* C1: under continued ticking with no stop or reset every run eventually
\* reaches Complete.
C1_EventuallyComplete == [](App.isRunning => <>App.isComplete)

\* C2: the tick that leaves the treatment plant fully grown appends exactly
\* one sample to the treatment series, sets isComplete, clears isRunning and
\* schedules no further frame.
C2_CompletionTick ==
    [][(App.isRunning /\ App'.plant # << >>
          /\ plantFullyGrown(App'.plant[1]))
       => /\ App'.isComplete
          /\ ~App'.isRunning
          /\ Len(App'.dataPoints) = Len(App.dataPoints) + 1
          /\ SubSeq(App'.dataPoints, 1, Len(App.dataPoints)) = App.dataPoints
          /\ raf' = takeFrame(raf)]_vars

\* a run has just been completed by a tick
C2_Witness ==
    /\ App.isComplete
    /\ op = "frame"
    /\ App.plant # << >>
    /\ plantFullyGrown(App.plant[1])
    /\ Len(App.dataPoints) > 0

\* C3: once the driver is Complete no animate call appends a sample to the
\* treatment series.
C3_NoSampleAfterComplete ==
    [][(App.isComplete /\ op' \in {"frame", "frameIdle"})
       => App'.dataPoints = App.dataPoints]_vars

\* a frame callback has run after the run was completed
C3_Witness ==
    /\ App.isComplete
    /\ op = "frameIdle"
    /\ Len(App.dataPoints) > 0

\* C4: at the end of every tick no segment is still growing with its length
\* at or beyond its target length.
C4_StopsAtTarget ==
    \A tree \in Trees : \A i \in 1..Len(tree) :
       ~(tree[i].growing /\ tree[i].length >= tree[i].targetLength)

\* C5: neither organ's total length exceeds its configured maximum by more
\* than one per-tick growth increment of a segment.
C5_OrganCeiling ==
    \A p \in Plants :
       /\ totalLength(p.shoot, 1)
            <= p.maxShootLength + growthStep(p.variety, p.shoot[1])
       /\ totalLength(p.root, 1)
            <= p.maxRootLength + growthStep(p.variety, p.root[1])

\* C6 as stated: no segment of depth 5 or more has a child with isBranch.
C6_BranchCapAnySegment ==
    \A tree \in Trees : \A i \in 1..Len(tree) :
       getDepth(tree, i) >= MaxBranchDepth
          => \A j \in Kids(tree, i) : ~tree[j].isBranch

\* C6 (amended): no segment of depth 5 or more that is not itself a branch
\* segment has a child with isBranch; the continuation child of a branch
\* segment inherits isBranch at any depth.
C6_BranchCap ==
    \A tree \in Trees : \A i \in 1..Len(tree) :
       (getDepth(tree, i) >= MaxBranchDepth /\ ~tree[i].isBranch)
          => \A j \in Kids(tree, i) : ~tree[j].isBranch

\* a main-axis shoot segment at the depth limit has grown through the
\* branching window without a branch
C6_Witness ==
    \E tree \in Trees : \E i \in 1..Len(tree) :
       /\ getDepth(tree, i) >= MaxBranchDepth
       /\ ~tree[i].isRoot
       /\ ~tree[i].isBranch
       /\ tree[i].length >= tree[i].targetLength
       /\ Kids(tree, i) # {}

\* C7: no segment has more than one child with isBranch, and no segment
\* has more than one continuation child (a child with its own isBranch).
C7_SingleBranch ==
    \A tree \in Trees : \A i \in 1..Len(tree) :
       /\ Cardinality({j \in Kids(tree, i) : tree[j].isBranch}) <= 1
       /\ Cardinality({j \in Kids(tree, i) :
                          tree[j].isBranch = tree[i].isBranch}) <= 1

\* a segment that branched has kept growing past its target, and another
\* segment has its continuation child
C7_Witness ==
    \E tree \in Trees :
       /\ \E i \in 1..Len(tree) :
             /\ tree[i].hasBranched
             /\ tree[i].length > tree[i].targetLength
             /\ \E j \in Kids(tree, i) : tree[j].isBranch
       /\ \E i \in 1..Len(tree) :
             /\ ~tree[i].growing
             /\ \E j \in Kids(tree, i) : tree[j].isBranch = tree[i].isBranch

\* the segments of tree t keep their length and stay inactive in tree u
Monotone(t, u) ==
    \A i \in 1..Len(t) :
       /\ i <= Len(u)
       /\ u[i].length >= t[i].length
       /\ (~t[i].growing => ~u[i].growing)

\* C8: from one tick to the next no segment's length decreases and no
\* inactive segment becomes active again.
C8_Monotonic ==
    [][/\ Monotone(App.plant[1].shoot, App'.plant[1].shoot)
       /\ Monotone(App.plant[1].root, App'.plant[1].root)]_vars

\* an inactive segment whose child has grown since
C8_Witness ==
    \E tree \in Trees : \E i \in 1..Len(tree) :
       /\ ~tree[i].growing
       /\ \E j \in Kids(tree, i) : tree[j].length >= tree[j].targetLength

\* the segments of tree t keep their angle offset in tree u
SameOffsets(t, u) ==
    \A i \in 1..Len(t) :
       i <= Len(u) /\ u[i].angleOffset = t[i].angleOffset

\* C9: the angle offset a segment got at construction is unchanged by every
\* later tick, whatever it grows, branches or adds at the tip.
C9_AngleImmutable ==
    [][/\ SameOffsets(App.plant[1].shoot, App'.plant[1].shoot)
       /\ SameOffsets(App.plant[1].root, App'.plant[1].root)]_vars

\* a tip segment and a branch segment with non-zero offsets that have
\* grown since their construction
C9_Witness ==
    \E tree \in Trees :
       /\ \E i \in 1..Len(tree) :
             /\ tree[i].parent # 0
             /\ ~tree[i].isBranch
             /\ tree[i].angleOffset # 0
             /\ tree[i].length >= tree[i].targetLength
       /\ \E i \in 1..Len(tree) :
             /\ tree[i].isBranch
             /\ tree[i].angleOffset # 0
             /\ tree[i].length >= tree[i].targetLength

\* C10: once the plant is fully grown it is fully grown after every later
\* Plant.update.
C10_MaturityMonotonic ==
    [][plantFullyGrown(App.plant[1]) => plantFullyGrown(App'.plant[1])]_vars

\* a fully grown plant with more than one segment in each organ
C10_Witness ==
    /\ App.plant # << >>
    /\ plantFullyGrown(App.plant[1])
    /\ Len(App.plant[1].shoot) > 1
    /\ Len(App.plant[1].root) > 1
    /\ op = "update"

\* C11: stop invoked while the driver is not Running (Idle, Paused or
\* Complete) is ignored: it changes nothing of the driver and appends no
\* sample to either series.
C11_StopIgnored ==
    [][(~App.isRunning /\ op' = "stopIdle") => (App' = App /\ raf' = raf)]_vars

\* C12: start invoked while the driver is Running is ignored: both plants,
\* the elapsed time, both series and the running and complete flags are
\* unchanged and no frame is scheduled.
C12_StartIgnored ==
    [][(App.isRunning /\ op' = "startIgnored")
       => (App' = App /\ raf' = raf /\ ui' = ui)]_vars

\* startExperiment has been called on a running driver that has a control
\* plant and a pending frame
C12_Witness ==
    /\ op = "startIgnored"
    /\ App.isRunning
    /\ App.plant # << >>
    /\ App.comparePlant # << >>
    /\ Pending(raf) > 0

\* C13: stop invoked while Running leaves the driver Paused (isRunning and
\* isComplete both false) and appends exactly one sample to the treatment
\* series; and while the driver is not Running nothing but a start or a
\* reset changes a plant.
C13_StopPauses ==
    [][/\ (App.isRunning /\ op' = "stop")
            => /\ ~App'.isRunning
               /\ ~App'.isComplete
               /\ Len(App'.dataPoints) = Len(App.dataPoints) + 1
               /\ SubSeq(App'.dataPoints, 1, Len(App.dataPoints))
                     = App.dataPoints
               /\ App'.plant = App.plant
               /\ App'.comparePlant = App.comparePlant
       /\ (~App.isRunning /\ op' \notin {"start", "reset"})
            => /\ App'.plant = App.plant
               /\ App'.comparePlant = App.comparePlant]_vars

\* a frame callback has fired on a driver paused by stop, whose plant is
\* past germination
C13_Witness ==
    /\ op = "frameIdle"
    /\ ~App.isRunning
    /\ ~App.isComplete
    /\ App.plant # << >>
    /\ App.plant[1].age >= GerminationTicks
    /\ Len(App.dataPoints) > 0

\* C14: a start invoked on a driver paused by stop, with no reset between,
\* continues on the same treatment plant: the plant it leaves is the paused
\* plant, segment trees and age, advanced by the tick the start runs.
C14_Resumable ==
    [][(~App.isRunning /\ ~App.isComplete /\ App.plant # << >>
          /\ op' = "start")
       => /\ App'.plant # << >>
          /\ App'.plant[1] \in update(App.plant[1], App.gravity,
                                       App.lightDir)]_vars

\* plant p of variety v has age a and a single growing segment in each organ
Seedling(p, v, a) ==
    /\ p.variety = v
    /\ p.age = a
    /\ Len(p.shoot) = 1 /\ p.shoot[1].growing /\ p.shoot[1].parent = 0
    /\ Len(p.root) = 1 /\ p.root[1].growing /\ p.root[1].parent = 0

\* an accepted start leaves the driver Running with a treatment plant that
\* is a seedling of age a, and with a control plant, a seedling of the same
\* species, exactly when comparison mode is on and the gravity is not 1
StartLeaves(a) ==
    (~App.isRunning /\ op' = "start")
       => /\ App'.isRunning
          /\ App'.plant # << >>
          /\ Seedling(App'.plant[1], App.variety, a)
          /\ (App'.comparePlant # << >>)
                <=> (App.compareMode /\ App.gravity # 1)
          /\ App'.comparePlant # << >>
                => Seedling(App'.comparePlant[1], App.variety, a)

\* C15 as stated: the plants an accepted start leaves have age 0.
C15_AcceptedStartAgeZero == [][StartLeaves(0)]_vars

\* C15 (amended): an accepted start leaves the driver Running with a newly
\* constructed treatment plant that has had its first tick (age 1, shoot
\* and root each a single childless growing segment), and with a control
\* plant of the same species iff comparison mode is on and the treatment
\* gravity is not 1; otherwise the control plant is null.
C15_AcceptedStart == [][StartLeaves(1)]_vars

\* a start accepted on a driver that had run before, with a control plant
C15_Witness ==
    /\ op = "start"
    /\ App.isRunning
    /\ App.comparePlant # << >>
    /\ Len(App.dataPoints) > 0
    /\ App.plant[1].age = 1

\* C16: from an accepted start until reset, that is while the driver holds
\* a treatment plant, no step changes App.variety, App.gravity or
\* App.lightDir.
C16_HypothesisLock ==
    [][App.plant # << >>
       => /\ App'.variety = App.variety
          /\ App'.gravity = App.gravity
          /\ App'.lightDir = App.lightDir]_vars

\* C17: reset, from any state, leaves the driver Idle: isRunning and
\* isComplete false, elapsedMs 0, both plants null and no frame callback
\* pending, and it leaves the treatment series as it was.
C17_ResetIdle ==
    [][op' = "reset"
       => /\ ~App'.isRunning
          /\ ~App'.isComplete
          /\ App'.elapsedMs = 0
          /\ App'.plant = << >>
          /\ App'.comparePlant = << >>
          /\ Pending(raf') = 0
          /\ App'.dataPoints = App.dataPoints]_vars

\* C18: a tick that leaves the driver Running appends one sample to the
\* treatment series when the elapsed time has passed into a new interval
\* of 8000 ms and none otherwise, whatever the series holds from stop or
\* from earlier runs.  (Stated for ticks whose elapsed time is represented
\* exactly.)
C18_FixedCadence ==
    [][(App.isRunning /\ op' = "frame" /\ App'.isRunning
          /\ App.elapsedMs < MaxElapsed)
       => Len(App'.dataPoints)
            = Len(App.dataPoints)
                + (IF App'.elapsedMs \div SampleMs > App.elapsedMs \div SampleMs
                   THEN 1 ELSE 0)]_vars

\* C19: at most one animate frame callback is pending at any time.
C19_OnePendingFrame == Pending(raf) <= 1

\* C20: a frame callback that fires while the driver is not Running
\* updates no plant, appends no sample, leaves the elapsed time alone and
\* schedules no further frame.
C20_CooperativeCancel ==
    [][(~App.isRunning /\ op' = "frameIdle")
       => /\ App' = App
          /\ Pending(raf') = Pending(raf) - 1]_vars

\* a frame callback has fired on a paused driver that holds a treatment
\* plant and a control plant
C20_Witness ==
    /\ op = "frameIdle"
    /\ ~App.isRunning
    /\ ~App.isComplete
    /\ App.plant # << >>
    /\ App.comparePlant # << >>

\* C21: the absolute angle of a germination segment is its canonical
\* vertical direction (up for the shoot, down for the root) plus the jitter
\* the plant drew, and the shoot and the root carry the same jitter.
C21_GerminationAngle ==
    \A p \in Plants :
       /\ p.shoot[1].angleOffset = p.root[1].angleOffset
       /\ angle(p.shoot, 1) = -(Pi \div 2) + p.shoot[1].angleOffset
       /\ angle(p.root, 1) = Pi \div 2 + p.root[1].angleOffset

\* every growing segment of tree t that is below the largest represented
\* length is longer in tree u
Grown(t, u) ==
    \A i \in 1..Len(t) :
       (t[i].growing /\ t[i].length < MaxLength)
          => (i <= Len(u) /\ u[i].length > t[i].length)

\* C22: every Plant.update increments the age by 1 (counted cyclically
\* past MaxAge); while the incremented age is below 8 both trees stay as
\* they are, and from the call that brings the age to 8 onward both trees
\* are grown: every growing segment of either tree gets longer.
C22_GerminationLatency ==
    [][op' = "update"
       => LET p == App.plant[1]
              q == App'.plant[1]
          IN /\ p.age < MaxAge => q.age = p.age + 1
             /\ p.age >= MaxAge => q.age >= GerminationTicks
             /\ p.age + 1 < GerminationTicks
                  => (q.shoot = p.shoot /\ q.root = p.root)
             /\ p.age + 1 >= GerminationTicks
                  => (Grown(p.shoot, q.shoot) /\ Grown(p.root, q.root))]_vars

\* the call that brought the age to 8 has grown both germination segments
C22_Witness ==
    /\ op = "update"
    /\ App.plant[1].age = GerminationTicks
    /\ Len(App.plant[1].shoot) = 1
    /\ App.plant[1].shoot[1].length
          = LenUnit \div 10 + growthStep(App.plant[1].variety,
                                         App.plant[1].shoot[1])
    /\ App.plant[1].root[1].length
          = LenUnit \div 10 + growthStep(App.plant[1].variety,
                                         App.plant[1].root[1])

\* C23: the treatment and the control plant share no state: a tick leaves
\* each plant as Plant.update leaves that plant on its own, whatever the
\* other plant is and whichever of the two is updated first.
C23_PlantsIndependent ==
    [][(App.isRunning /\ op' = "frame" /\ App.comparePlant # << >>)
       => /\ App'.plant # << >>
          /\ App'.plant[1] \in update(App.plant[1], App.gravity,
                                       App.lightDir)
          /\ App'.comparePlant # << >>
          /\ App'.comparePlant[1] \in update(App.comparePlant[1], 1,
                                              App.lightDir)]_vars

\* a tick has updated a treatment and a control plant that are past
\* germination and differ from each other
C23_Witness ==
    /\ op = "frame"
    /\ App.plant # << >>
    /\ App.comparePlant # << >>
    /\ App.plant[1].age > GerminationTicks
    /\ App.comparePlant[1].shoot # App.plant[1].shoot

\* the continuation children of segment i: the children that carry the
\* isBranch flag of i and are not its side branch
Continuations(tree, i) ==
    {j \in Kids(tree, i) : tree[j].isBranch = tree[i].isBranch}

\* in the step from tree t to tree u, made with the organ total below max,
\* every growing segment without a continuation child whose length reaches
\* its target becomes inactive and gains exactly one continuation child
Completes(t, u, max) ==
    \A i \in 1..Len(t) :
       (/\ t[i].growing
        /\ t[i].length < t[i].targetLength
        /\ u[i].length >= u[i].targetLength
        /\ Continuations(t, i) = {}
        /\ totalLength(t, 1) < max)
          => /\ ~u[i].growing
             /\ Cardinality(Continuations(u, i)) = 1
             /\ \A j \in Continuations(u, i) : u[j].isRoot = u[i].isRoot

\* C25: a growing segment whose length reaches its target in a tick, that
\* has no continuation child, with the organ total below the organ
\* maximum, becomes inactive and gains exactly one continuation child in
\* that tick, also when it already has a branch child.
C25_CompletionStep ==
    [][op' = "update"
       => /\ Completes(App.plant[1].shoot, App'.plant[1].shoot,
                       App.plant[1].maxShootLength)
          /\ Completes(App.plant[1].root, App'.plant[1].root,
                       App.plant[1].maxRootLength)]_vars

C27_ParallelSeries ==
    [][(/\ App.comparePlant # << >>
        /\ op' \in {"frame", "stop"}
        /\ Len(App'.dataPoints) = Len(App.dataPoints) + 1)
       => /\ Len(App'.compareData) = Len(App.compareData) + 1
          /\ App'.compareData[Len(App'.compareData)].time
               = App'.dataPoints[Len(App'.dataPoints)].time]_vars

\* in the step from tree t to tree u, made with the organ total at or above
\* max, every growing childless segment whose length reaches its target
\* becomes inactive without a child, and an inactive childless segment
\* stays childless
StopsAtCeiling(t, u, max) ==
    \A i \in 1..Len(t) :
       /\ (/\ t[i].growing
           /\ Kids(t, i) = {}
           /\ t[i].length < t[i].targetLength
           /\ u[i].length >= u[i].targetLength
           /\ totalLength(t, 1) >= max)
             => (~u[i].growing /\ Kids(u, i) = {})
       /\ (~t[i].growing /\ Kids(t, i) = {})
             => (~u[i].growing /\ Kids(u, i) = {})

BranchesLawfully(t, u) ==
    \A j \in (Len(t) + 1)..Len(u) :
       LET i == u[j].parent
       IN (u[j].isBranch /\ ~u[i].isBranch)
             => /\ i <= Len(t) => (t[i].growing /\ ~t[i].hasBranched)
                /\ ~u[i].isRoot
                /\ u[i].length * 10 > u[i].targetLength * 6
                /\ getDepth(u, i) < MaxBranchDepth
                /\ u[i].hasBranched
                /\ ~u[j].isRoot
                /\ Cardinality({k \in (Len(t) + 1)..Len(u) :
                                   u[k].parent = i /\ u[k].isBranch}) = 1

\* C29: a branch child is created only from a segment that at that moment
\* is growing, non-root, non-branch, not yet branched, longer than 0.6 x
\* its target and of depth below 5; the creation appends exactly one child
\* with isBranch true and isRoot false and sets hasBranched on the parent.
C29_BranchCreation ==
    [][op' = "update"
       => /\ BranchesLawfully(App.plant[1].shoot, App'.plant[1].shoot)
          /\ BranchesLawfully(App.plant[1].root, App'.plant[1].root)]_vars

\* the last update created a branch on a main-axis segment of depth 1 or
\* more
C29_Witness ==
    /\ op = "update"
    /\ \E tree \in Trees :
          LET j == Len(tree)
              i == tree[j].parent
          IN /\ i # 0
             /\ tree[j].isBranch
             /\ ~tree[i].isBranch
             /\ tree[i].hasBranched
             /\ getDepth(tree, i) >= 1
             /\ tree[j].length < tree[j].targetLength

\* C30 as stated: the sample times of the treatment series are
\* non-decreasing in append order.
C30_TimesSorted ==
    \A k \in 1..(Len(App.dataPoints) - 1) :
       App.dataPoints[k].time <= App.dataPoints[k + 1].time

\* C30 (amended): every sample appended to the treatment series carries
\* the elapsed time of that moment, and the elapsed time decreases in no
\* step but a reset; so the sample times are non-decreasing in append
\* order from one reset to the next.
C30_TimesSortedWithinRun ==
    [][/\ Len(App'.dataPoints) > Len(App.dataPoints)
            => /\ Len(App'.dataPoints) = Len(App.dataPoints) + 1
               /\ SubSeq(App'.dataPoints, 1, Len(App.dataPoints))
                     = App.dataPoints
               /\ App'.dataPoints[Len(App'.dataPoints)].time
                     = App'.elapsedMs
       /\ op' # "reset" => App'.elapsedMs >= App.elapsedMs]_vars

\* a run has appended a sample at 0 ms and a later one at 8000 ms
C30_Witness ==
    /\ Len(App.dataPoints) = 2
    /\ App.dataPoints[1].time = 0
    /\ App.dataPoints[2].time = SampleMs
    /\ App.elapsedMs = SampleMs
    /\ op \in {"frame", "stop"}

\* C31: the treatment plant alone decides the auto-stop: a tick that leaves
\* the treatment plant short of fully grown leaves the run Running and not
\* Complete, whatever the control plant is, and once the run is Complete
\* the control plant changes in no step but a start or a reset.
C31_TreatmentDecides ==
    [][/\ (App.isRunning /\ op' = "frame"
            /\ ~plantFullyGrown(App'.plant[1]))
            => (App'.isRunning /\ ~App'.isComplete)
       /\ (App.isComplete /\ op' \notin {"start", "reset"})
            => App'.comparePlant = App.comparePlant]_vars

\* a tick has left the run Running with a fully grown control plant
C31_Witness ==
    /\ op = "frame"
    /\ App.isRunning
    /\ App.comparePlant # << >>
    /\ plantFullyGrown(App.comparePlant[1])
    /\ ~plantFullyGrown(App.plant[1])

\* C32: the number of segments of an organ tree is at most
\* floor(maxOrganLength / targetLength) + 2.
C32_TreeSizeBounded ==
    \A p \in Plants :
       /\ Len(p.shoot)
            <= p.maxShootLength \div targetLengthOf(FALSE) + 2
       /\ Len(p.root)
            <= p.maxRootLength \div targetLengthOf(TRUE) + 2

\* a shoot of seven segments or more that has stopped at its ceiling
C32_Witness ==
    \E p \in Plants :
       /\ Len(p.shoot) >= 7
       /\ totalLength(p.shoot, 1) >= p.maxShootLength
       /\ isFullyGrown(p.shoot, 1)
       /\ Len(p.root) >= 2

\* C33: the branch count recorded in a treatment sample is the number of
\* segments of the shoot tree with isBranch, the segments that continue a
\* branch included, and counts no root segment.
C33_BranchCount ==
    [][op' = "record"
       => /\ Len(App'.dataPoints) = Len(App.dataPoints) + 1
          /\ App'.dataPoints[Len(App'.dataPoints)].branches
               = Cardinality({i \in 1..Len(App.plant[1].shoot) :
                                 App.plant[1].shoot[i].isBranch})]_vars

\* a sample has been recorded of a plant whose branch is three segments
\* long and whose root has two segments
C33_Witness ==
    /\ op = "record"
    /\ Len(App.dataPoints) > 0
    /\ App.dataPoints[Len(App.dataPoints)].branches >= 3
    /\ Len(App.plant[1].root) >= 2

\* segment j lies in the subtree rooted at segment i
RECURSIVE InSubtree(_, _, _)
InSubtree(tree, i, j) ==
    \/ j = i
    \/ (tree[j].parent # 0 /\ InSubtree(tree, i, tree[j].parent))

\* C34: Segment.isFullyGrown() is true exactly when no segment of the
\* subtree rooted at the segment is growing, and Plant.isFullyGrown() is
\* that predicate of the shoot tree and of the root tree together.
C34_FullyGrownMeaning ==
    /\ \A tree \in Trees : \A i \in 1..Len(tree) :
          isFullyGrown(tree, i)
            <=> (\A j \in 1..Len(tree) :
                    InSubtree(tree, i, j) => ~tree[j].growing)
    /\ \A p \in Plants :
          plantFullyGrown(p)
            <=> /\ \A j \in 1..Len(p.shoot) : ~p.shoot[j].growing
                /\ \A j \in 1..Len(p.root) : ~p.root[j].growing

\* an inactive germination segment whose subtree has an inactive segment
\* and, further out, a growing one
C34_Witness ==
    \E tree \in Trees :
       /\ ~tree[1].growing
       /\ ~isFullyGrown(tree, 1)
       /\ Len(tree) >= 3
       /\ ~tree[2].growing
       /\ tree[Len(tree)].growing

\* the offsets the random term alone gives a continuation child in zero
\* gravity: (draw - 0.5) x 0.038 for a shoot, x 0.022 for a root segment
RandomOffsets(isRoot) ==
    {(r - 500) * (IF isRoot THEN 22 ELSE 38) : r \in Draws}

\* C35: with gravity 0 and no light the angle offset of every continuation
\* child is the random term alone: 0 for the draw 0.5, at most 0.019 rad in
\* magnitude for a shoot and 0.011 rad for a root segment.
C35_RandomOnly ==
    (App.gravity = 0 /\ App.lightDir = "none" /\ App.plant # << >>)
       => \A tree \in {App.plant[1].shoot, App.plant[1].root} :
             \A j \in 1..Len(tree) :
                (tree[j].parent # 0
                   /\ tree[j].isBranch = tree[tree[j].parent].isBranch)
                  => /\ tree[j].angleOffset \in RandomOffsets(tree[j].isRoot)
                     /\ tree[j].angleOffset
                          <= (IF tree[j].isRoot THEN 11000 ELSE 19000)
                     /\ tree[j].angleOffset
                          >= -(IF tree[j].isRoot THEN 11000 ELSE 19000)

\* in zero gravity without light a shoot has a continuation child with
\* offset 0 and one with a non-zero offset, after a parent that is itself
\* off the vertical, and the root has a continuation child
C35_Witness ==
    /\ App.gravity = 0
    /\ App.lightDir = "none"
    /\ App.plant # << >>
    /\ LET tree == App.plant[1].shoot
       IN /\ \E j \in 1..Len(tree) :
                /\ tree[j].parent # 0
                /\ ~tree[j].isBranch
                /\ tree[j].angleOffset = 0
                /\ angle(tree, tree[j].parent) # -(Pi \div 2)
          /\ \E j \in 1..Len(tree) :
                /\ tree[j].parent # 0
                /\ ~tree[j].isBranch
                /\ tree[j].angleOffset # 0
    /\ Len(App.plant[1].root) >= 2

\* the value angleDiff returns lies in [-pi, pi] and differs from a - b by
\* a multiple of 2 pi
Normalized ==
    /\ -Pi <= calc.d
    /\ calc.d <= Pi
    /\ (calc.d - (calc.a - calc.b)) % (2 * Pi) = 0

\* C36 as stated: angleDiff(a, b) terminates for all finite inputs, with a
\* result d in [-pi, pi] congruent to a - b modulo 2 pi.
C36_AngleDiffTotal ==
    /\ <>(calc.pc = "done")
    /\ [](calc.pc = "done" => Normalized)

\* the difference a - b is in the range where adding 2 pi is exact
ExactRange ==
    /\ calc.a - calc.b <= MaxExact
    /\ calc.a - calc.b >= -MaxExact

\* What does hold of angleDiff: when a - b is small enough for d - 2 pi to
\* differ from d in double arithmetic the call returns, and whatever it
\* returns is normalized.
AngleDiffExact ==
    /\ [](ExactRange => <>(calc.pc = "done"))
    /\ [](calc.pc = "done" => Normalized)

\* angleDiff has returned after more than one turn of its first loop
AngleDiffReturned ==
    /\ calc.pc = "done"
    /\ calc.a - calc.b > 3 * Pi
    /\ calc.d # calc.a - calc.b

\* the leaf list u extends the leaf list t at its end
Extends(t, u) ==
    /\ Len(t) <= Len(u)
    /\ \A k \in 1..Len(t) : u[k] = t[k]

\* C37: leaves are only ever on segments that are neither root nor branch
\* segments, a segment's leaf list only grows at its end, and the leaf
\* positions along a segment are strictly increasing.
C37_LeafDiscipline ==
    [][/\ \A tree \in Trees' : \A i \in 1..Len(tree) :
           /\ tree[i].leaves # << >>
                 => ~tree[i].isRoot /\ ~tree[i].isBranch
           /\ \A k \in 1..(Len(tree[i].leaves) - 1) :
                 tree[i].leaves[k] < tree[i].leaves[k + 1]
       /\ \A i \in 1..Len(App.plant[1].shoot) :
             Extends(App.plant[1].shoot[i].leaves,
                     App'.plant[1].shoot[i].leaves)
       /\ \A i \in 1..Len(App.plant[1].root) :
             Extends(App.plant[1].root[i].leaves,
                     App'.plant[1].root[i].leaves)]_vars

\* a main-stem segment carries two leaves while a branch segment and a root
\* segment, both long enough for a leaf, carry none
C37_Witness ==
    /\ op = "update"
    /\ \E p \in Plants :
          /\ \E i \in 1..Len(p.shoot) : Len(p.shoot[i].leaves) >= 2
          /\ \E i \in 1..Len(p.shoot) :
                /\ p.shoot[i].isBranch
                /\ p.shoot[i].length > 11 * LenUnit
                /\ p.shoot[i].leaves = << >>
          /\ \E i \in 1..Len(p.root) :
                /\ p.root[i].length > 9 * LenUnit
                /\ p.root[i].leaves = << >>

\* C38: isRunning and isComplete are never both true, and whenever
\* isRunning is true the treatment plant is non-null.
C38_FlagsExclusive ==
    /\ ~(App.isRunning /\ App.isComplete)
    /\ App.isRunning => App.plant # << >>

\* a run started anew after an earlier run has left a sample behind
C38_Witness ==
    /\ op = "start"
    /\ App.isRunning
    /\ ~App.isComplete
    /\ App.plant # << >>
    /\ Len(App.dataPoints) > 0
=============================================================================
